---- MODULE Spec2Model ----
(***************************************************************************)
(* Page-visit ingestion and query service (backend/app).                   *)
(*                                                                         *)
(* The table page_visits is a set of rows; every HTTP request is one       *)
(* action that dispatches the path through the registered routes in        *)
(* registration order, validates the parameters, runs the handler with     *)
(* every store statement it issues, and leaves the response in resp.       *)
(*                                                                         *)
(* Strings that the code inspects (paths, urls) are sequences of tokens;   *)
(* the concatenation of the tokens is the string.  Timestamps are          *)
(* integers.  An Optional value is a sequence of length at most one.       *)
(***************************************************************************)
EXTENDS Integers, Sequences, FiniteSets, TLC

VARIABLES
    visits,   \* rows of table page_visits
    now,      \* server clock, datetime.utcnow()
    req,      \* the request handled last, as the client sent it
    resp,     \* its response: status code and JSON body
    meta,     \* how it was handled: handler run, store statements issued, times
    pager     \* pages a client has fetched back to back at offsets 0, P, 2P, ...

vars == <<visits, now, req, resp, meta, pager>>

----------------------------------------------------------------------------
(* Bounds of the model *)

MaxVisits == 2      \* rows the table may hold
MaxClock == 2       \* last value of the server clock

(* Program constants *)

UrlLimitDefault == 50
UrlLimitMax == 100
AllLimitDefault == 100
AllLimitMax == 500
ErrorStatusDefault == 400

Min(a, b) == IF a < b THEN a ELSE b

----------------------------------------------------------------------------
(* Strings as token sequences *)

None == <<>>
Some(v) == <<v>>

SCHEME == "https://"

U_x == <<SCHEME, "x">>            \* "https://x"
U_X == <<SCHEME, "X">>            \* differs from U_x by case only
U_xs == <<SCHEME, "x", "/">>      \* differs from U_x by a trailing slash only
U_bad == <<"x">>                  \* "x": no scheme, not parseable as a URL
U_empty == <<>>                   \* "": the empty string
U_pct == <<SCHEME, "x", "/", "%20">>   \* "https://x/%20": holds a '%' sequence
U_sp == <<SCHEME, "x", "/", " ">>      \* "https://x/ ": U_pct percent-decoded

UrlStrings == {U_x, U_X, U_xs, U_bad}

(* The urls the clients ask for: one with and one without a trailing slash *)
ReadUrls == {U_x, U_xs}

(* pydantic HttpUrl: a scheme followed by a host.  The schema imports it   *)
(* and does not use it.                                                    *)
IsHttpUrl(u) == Len(u) >= 2 /\ u[1] = SCHEME

----------------------------------------------------------------------------
(* JSON values of a request body *)

JMissing == [t |-> "missing"]
JNull == [t |-> "null"]
JInt(n) == [t |-> "int", n |-> n]
JFloat(n, tenths) == [t |-> "float", n |-> n, tenths |-> tenths]   \* n + tenths/10
JStr(s) == [t |-> "str", s |-> s]

(* Decimal strings the model uses and the integers they denote *)
DigitStrings == {"-1", "0", "1", "2", "3", "50", "100", "101", "500", "501"}
IntOfString(s) ==
    CASE s = "-1" -> -1
      [] s = "0" -> 0
      [] s = "1" -> 1
      [] s = "2" -> 2
      [] s = "3" -> 3
      [] s = "50" -> 50
      [] s = "100" -> 100
      [] s = "101" -> 101
      [] s = "500" -> 500
      [] s = "501" -> 501

StringOfInt(n) == CHOOSE s \in DigitStrings : IntOfString(s) = n

(* ISO-8601 strings the model uses and the timestamps they denote *)
IsoStrings == {"2024-01-15T10:00:00"}
TimeOfIso(s) ==
    CASE s = "2024-01-15T10:00:00" -> 1

Valid(v) == [ok |-> TRUE, v |-> v]
Invalid(type) == [ok |-> FALSE, type |-> type]

(* pydantic v2, lax mode, field type int: an int is taken as it is, a      *)
(* float must have no fractional part, a string must be a decimal integer. *)
IntLax(j) ==
    CASE j.t = "int" -> Valid(j.n)
      [] j.t = "float" -> IF j.tenths = 0 THEN Valid(j.n) ELSE Invalid("int_from_float")
      [] j.t = "str" -> IF j.s \in DigitStrings THEN Valid(IntOfString(j.s))
                        ELSE Invalid("int_parsing")
      [] j.t = "null" -> Invalid("int_type")
      [] j.t = "missing" -> Invalid("missing")

(* Mutant: the count fields are declared without ge=0. *)
CountFieldUnbounded(j) == IntLax(j)

(* link_count / word_count / image_count: int = Field(..., ge=0) *)
CountField(j) ==
    LET r == IntLax(j) IN
    IF r.ok /\ r.v < 0 THEN Invalid("greater_than_equal") ELSE r

(* url: str = Field(...): any string, nothing but a string *)
UrlField(j) ==
    CASE j.t = "str" -> Valid(j.s)
      [] j.t = "missing" -> Invalid("missing")
      [] OTHER -> Invalid("string_type")

(* datetime_visited: Optional[datetime] = Field(default=None) *)
DatetimeField(j) ==
    CASE j.t \in {"missing", "null"} -> Valid(None)
      [] j.t = "str" -> IF j.s \in IsoStrings THEN Valid(Some(TimeOfIso(j.s)))
                        ELSE Invalid("datetime_from_date_parsing")

CreateFields == {"url", "datetime_visited", "link_count", "word_count", "image_count"}

FieldResult(body, f) ==
    CASE f = "url" -> UrlField(body.url)
      [] f = "datetime_visited" -> DatetimeField(body.datetime_visited)
      [] f = "link_count" -> CountField(body.link_count)
      [] f = "word_count" -> CountField(body.word_count)
      [] f = "image_count" -> CountField(body.image_count)

(* PageVisitCreate: the validated object, or the errors per field *)
PageVisitCreate(body) ==
    LET bad == {f \in CreateFields : ~FieldResult(body, f).ok} IN
    IF bad = {}
    THEN [ok |-> TRUE,
          visit |-> [url |-> FieldResult(body, "url").v,
                     datetime_visited |-> FieldResult(body, "datetime_visited").v,
                     link_count |-> FieldResult(body, "link_count").v,
                     word_count |-> FieldResult(body, "word_count").v,
                     image_count |-> FieldResult(body, "image_count").v]]
    ELSE [ok |-> FALSE,
          errors |-> {[loc |-> f, type |-> FieldResult(body, f).type] : f \in bad}]

----------------------------------------------------------------------------
(* response.py *)

(* Python truthiness of an Optional list or dict: None, [] and {} are falsy *)
Truthy(opt) == opt # None /\ DOMAIN opt[1] # {}

(* The value of a keyword argument: the default when the call leaves it out *)
Default(arg, default) == IF arg = None THEN default ELSE arg[1]

(* Mutant: the key data is set only for a payload that is not None. *)
success_response_dropping_none(data, message) ==
    [success |-> TRUE, message |-> message]
    @@ (IF DOMAIN data # {} THEN [data |-> data] ELSE <<>>)

(* Mutant: errors and data are tested with "is not None". *)
error_response_is_not_none(message, status_code, errors, data) ==
    [status |-> status_code,
     body |-> [success |-> FALSE, message |-> message]
              @@ (IF errors # None THEN [errors |-> errors[1]] ELSE <<>>)
              @@ (IF data # None THEN [data |-> data[1]] ELSE <<>>)]

(* A message is a token sequence, as every string the code builds is.      *)
(* success_response: a dict; its status_code argument is not used, the     *)
(* status is the one of the route                                          *)
success_response(data, message) ==
    [success |-> TRUE, message |-> message, data |-> data]

(* error_response: a JSONResponse carrying its own status code *)
error_response(message, status_code, errors, data) ==
    [status |-> status_code,
     body |-> [success |-> FALSE, message |-> message]
              @@ (IF Truthy(errors) THEN [errors |-> errors[1]] ELSE <<>>)
              @@ (IF Truthy(data) THEN [data |-> data[1]] ELSE <<>>)]

(* FastAPI's handler of RequestValidationError, which main.py leaves in    *)
(* place: status 422 and a body with the key detail                        *)
validation_error_response(errors) ==
    [status |-> 422, body |-> [detail |-> errors]]

----------------------------------------------------------------------------
(* models.py, crud.py *)

(* Values uuid.uuid4() may return.  Ids are only ever compared for         *)
(* equality, so one unused value stands for all of them; a used value is   *)
(* a collision.                                                            *)
Uuid4(table) ==
    LET used == {r.id : r \in table}
    IN  used \cup {CHOOSE n \in 1..(Cardinality(used) + 1) : n \notin used}

(* PageVisit(...) as inserted: id and created_at take their column defaults *)
PageVisit(id, url, datetime_visited, link_count, word_count, image_count, created_at) ==
    [id |-> id, url |-> url, datetime_visited |-> datetime_visited,
     link_count |-> link_count, word_count |-> word_count,
     image_count |-> image_count, created_at |-> created_at]

(* Mutant: the clock is read even when the caller supplied a timestamp. *)
create_page_visit_ignoring_supplied(visit, id, t_call, t_flush) ==
    PageVisit(id, visit.url, t_call,
              visit.link_count, visit.word_count, visit.image_count, t_flush)

(* create_page_visit: the row built from the validated input; t_call is    *)
(* utcnow() at line 25, id and t_flush are the defaults taken at the flush *)
create_page_visit(visit, id, t_call, t_flush) ==
    PageVisit(id, visit.url,
              IF visit.datetime_visited # None THEN visit.datetime_visited[1] ELSE t_call,
              visit.link_count, visit.word_count, visit.image_count, t_flush)

(* Mutant: the commit leaves only the rows of the session in the table. *)
InsertReplacing(table, rows) == rows

(* db.add(db_visit); db.commit(): the rows of the session join the table *)
Insert(table, rows) == table \cup rows

IsInjective(s) == \A i, j \in DOMAIN s : i # j => s[i] # s[j]

(* Mutant: ORDER BY datetime_visited ascending. *)
OrderByDescAscending(rows) ==
    {s \in [1..Cardinality(rows) -> rows] :
        /\ IsInjective(s)
        /\ \A i, j \in DOMAIN s : i < j => s[i].datetime_visited <= s[j].datetime_visited}

(* ORDER BY datetime_visited DESC: every sequence of the rows the store    *)
(* may return; rows with equal datetime_visited come in any order          *)
OrderByDesc(rows) ==
    {s \in [1..Cardinality(rows) -> rows] :
        /\ IsInjective(s)
        /\ \A i, j \in DOMAIN s : i < j => s[i].datetime_visited >= s[j].datetime_visited}

(* Mutant: OFFSET is left out of the query. *)
LimitOffsetIgnoringOffset(s, limit, offset) ==
    SubSeq(s, 1, Min(Len(s), limit))

(* LIMIT limit OFFSET offset *)
LimitOffset(s, limit, offset) ==
    SubSeq(s, offset + 1, Min(Len(s), offset + limit))

(* Mutant: the filter compares urls without their trailing slash. *)
UrlFilterNormalised(table, url) ==
    LET strip(u) == IF Len(u) > 0 /\ u[Len(u)] = "/" THEN SubSeq(u, 1, Len(u) - 1) ELSE u
    IN  {r \in table : strip(r.url) = strip(url)}

(* filter(PageVisit.url == url) *)
UrlFilter(table, url) == {r \in table : r.url = url}

(* The results get_visits_by_url may return *)
get_visits_by_url(table, url, limit, offset) ==
    {LimitOffset(s, limit, offset) : s \in OrderByDesc(UrlFilter(table, url))}

(* The results get_latest_visit_by_url may return: .first() is None or a row *)
get_latest_visit_by_url(table, url) ==
    {IF Len(s) = 0 THEN None ELSE Some(s[1]) : s \in OrderByDesc(UrlFilter(table, url))}

(* filter(PageVisit.url == url).count() *)
get_visit_count_by_url(table, url) == Cardinality(UrlFilter(table, url))

(* The results get_all_visits may return *)
get_all_visits(table, limit, offset) ==
    {LimitOffset(s, limit, offset) : s \in OrderByDesc(table)}

----------------------------------------------------------------------------
(* Percent-encoding of the tokens, urllib.parse.quote and unquote *)

QuoteToken(t) ==
    CASE t = SCHEME -> "https%3A%2F%2F"
      [] t = "/" -> "%2F"
      [] t = " " -> "%20"
      [] t = "%20" -> "%2520"
      [] OTHER -> t

UnquoteToken(t) ==
    CASE t = "https%3A%2F%2F" -> SCHEME
      [] t = "%2F" -> "/"
      [] t = "%20" -> " "
      [] t = "%2520" -> "%20"
      [] OTHER -> t

quote(s) == [i \in DOMAIN s |-> QuoteToken(s[i])]
unquote(s) == [i \in DOMAIN s |-> UnquoteToken(s[i])]

----------------------------------------------------------------------------
(* Routing: APIRouter(prefix="/api/visits") included in the application,   *)
(* then the application's own routes; all in registration order            *)

PREFIX == "/api/visits"
PATH_PARAM == "{url:path}"

Routes ==
    << [method |-> "POST", path |-> <<PREFIX, "/">>,
        endpoint |-> "create_visit", status_code |-> 201],
       [method |-> "GET", path |-> <<PREFIX, "/url/", PATH_PARAM>>,
        endpoint |-> "get_visits_for_url", status_code |-> 200],
       [method |-> "GET", path |-> <<PREFIX, "/url/", PATH_PARAM, "/latest">>,
        endpoint |-> "get_latest_visit_for_url", status_code |-> 200],
       [method |-> "GET", path |-> <<PREFIX, "/">>,
        endpoint |-> "get_all_visits", status_code |-> 200],
       [method |-> "GET", path |-> <<"/">>,
        endpoint |-> "root", status_code |-> 200],
       [method |-> "GET", path |-> <<"/health">>,
        endpoint |-> "health_check", status_code |-> 200] >>

(* Position of the path parameter in a route path, 0 when it has none *)
ParamAt(pattern) ==
    IF \E i \in DOMAIN pattern : pattern[i] = PATH_PARAM
    THEN CHOOSE i \in DOMAIN pattern : pattern[i] = PATH_PARAM
    ELSE 0

(* The route's regex against the path: the converter "path" is ".*", so    *)
(* the parameter takes whatever lies between the literal parts             *)
PathMatches(pattern, path) ==
    LET k == ParamAt(pattern)
        tail == Len(pattern) - k
    IN  IF k = 0 THEN path = pattern
        ELSE /\ Len(path) >= Len(pattern) - 1
             /\ SubSeq(path, 1, k - 1) = SubSeq(pattern, 1, k - 1)
             /\ SubSeq(path, Len(path) - tail + 1, Len(path))
                    = SubSeq(pattern, k + 1, Len(pattern))

PathParam(pattern, path) ==
    LET k == ParamAt(pattern)
    IN  SubSeq(path, k, Len(path) - (Len(pattern) - k))

RouteMatches(route, method, path) ==
    route.method = method /\ PathMatches(route.path, path)

(* Router: the first route that matches handles the request; 0 for none *)
Dispatch(method, path) ==
    LET m == {i \in DOMAIN Routes : RouteMatches(Routes[i], method, path)}
    IN  IF m = {} THEN 0 ELSE CHOOSE i \in m : \A j \in m : i <= j

(* Router.redirect_slashes: a path no route matches is redirected (307) to *)
(* the same path with a slash appended when a route matches that; the      *)
(* client follows the redirect with the same method and body               *)
RedirectSlashes(method, path) ==
    IF Dispatch(method, path) = 0 /\ Dispatch(method, path \o <<"/">>) # 0
    THEN path \o <<"/">>
    ELSE path

----------------------------------------------------------------------------
(* routers/visits.py: the endpoints.  Each is the set of outcomes the      *)
(* handler may produce: the response and the store statements it issued.   *)

Outcome(endpoint, status, body, queries) ==
    [endpoint |-> endpoint, status |-> status, body |-> body, queries |-> queries]

Failed(endpoint, response, queries) ==
    Outcome(endpoint, response.status, response.body, queries)

(* Query(default, ge=ge, le=le) on a query-string value: le is Optional *)
QueryInt(j, default, ge, le) ==
    IF j.t = "missing" THEN Valid(default)
    ELSE LET r == IntLax(j) IN
         IF ~r.ok THEN r
         ELSE IF r.v < ge THEN Invalid("greater_than_equal")
         ELSE IF le # None /\ r.v > le[1] THEN Invalid("less_than_equal")
         ELSE r

QueryErrors(limit, offset) ==
    {[loc |-> p[1], type |-> p[2].type] :
        p \in {q \in {<<"limit", limit>>, <<"offset", offset>>} : ~q[2].ok}}

(* PageVisitResponse.model_validate(v).model_dump(): the seven fields *)
PageVisitResponse(v) ==
    [id |-> v.id, url |-> v.url, datetime_visited |-> v.datetime_visited,
     link_count |-> v.link_count, word_count |-> v.word_count,
     image_count |-> v.image_count, created_at |-> v.created_at]

VisitsData(page) == [i \in DOMAIN page |-> PageVisitResponse(page[i])]

(* Store failures a statement may raise (SQLAlchemyError) *)
StoreErrors == {"OperationalError: connection refused"}
IntegrityError == "IntegrityError: duplicate key value violates unique constraint"

(* Mutant: total is the length of the page, as in get_all_visits. *)
get_visits_for_url_total_of_page(table, url, limit, offset) ==
    LET E == "get_visits_for_url"
        l == QueryInt(limit, UrlLimitDefault, 1, Some(UrlLimitMax))
        o == QueryInt(offset, 0, 0, None)
        decoded_url == unquote(url)
    IN  IF ~(l.ok /\ o.ok)
        THEN {Failed(E, validation_error_response(QueryErrors(l, o)), 0)}
        ELSE {Outcome(E, 200,
                      success_response([visits |-> VisitsData(page), total |-> Len(page)],
                                       <<"Success">>), 2) :
                 page \in get_visits_by_url(table, decoded_url, l.v, o.v)}
             \cup {Failed(E, error_response(<<"Failed to fetch visits">>, 500, None, None), n) :
                      n \in 1..2}

(* Mutant: the limit has no upper bound. *)
get_visits_for_url_unbounded(table, url, limit, offset) ==
    LET E == "get_visits_for_url"
        l == QueryInt(limit, UrlLimitDefault, 1, None)
        o == QueryInt(offset, 0, 0, None)
        decoded_url == unquote(url)
    IN  IF ~(l.ok /\ o.ok)
        THEN {Failed(E, validation_error_response(QueryErrors(l, o)), 0)}
        ELSE {Outcome(E, 200,
                      success_response(
                          [visits |-> VisitsData(page),
                           total |-> get_visit_count_by_url(table, decoded_url)],
                          <<"Success">>), 2) :
                 page \in get_visits_by_url(table, decoded_url, l.v, o.v)}
             \cup {Failed(E, error_response(<<"Failed to fetch visits">>, 500, None, None), n) :
                      n \in 1..2}

(* GET /url/{url:path}: the page, then the count; either statement may fail *)
get_visits_for_url(table, url, limit, offset) ==
    LET E == "get_visits_for_url"
        l == QueryInt(limit, UrlLimitDefault, 1, Some(UrlLimitMax))
        o == QueryInt(offset, 0, 0, None)
        decoded_url == unquote(url)
    IN  IF ~(l.ok /\ o.ok)
        THEN {Failed(E, validation_error_response(QueryErrors(l, o)), 0)}
        ELSE {Outcome(E, 200,
                      success_response(
                          [visits |-> VisitsData(page),
                           total |-> get_visit_count_by_url(table, decoded_url)],
                          <<"Success">>), 2) :
                 page \in get_visits_by_url(table, decoded_url, l.v, o.v)}
             \cup {Failed(E, error_response(<<"Failed to fetch visits">>, 500, None, None), n) :
                      n \in 1..2}

(* The message f"No visits found for URL: {decoded_url}" *)
NoVisitsFound(decoded_url) == <<"No visits found", " for URL: ">> \o decoded_url

(* GET /url/{url:path}/latest *)
get_latest_visit_for_url(table, url) ==
    LET E == "get_latest_visit_for_url"
        decoded_url == unquote(url)
    IN  {IF visit = None
         THEN Failed(E, error_response(NoVisitsFound(decoded_url), 404, None, None), 1)
         ELSE Outcome(E, 200, success_response(PageVisitResponse(visit[1]), <<"Success">>), 1) :
            visit \in get_latest_visit_by_url(table, decoded_url)}
        \cup {Failed(E, error_response(<<"Failed to fetch visit">>, 500, None, None), 1)}

(* Mutant: the page is queried before limit and offset are validated. *)
get_all_visits_endpoint_query_first(table, limit, offset) ==
    LET E == "get_all_visits"
        l == QueryInt(limit, AllLimitDefault, 1, Some(AllLimitMax))
        o == QueryInt(offset, 0, 0, None)
    IN  IF ~(l.ok /\ o.ok)
        THEN {Failed(E, validation_error_response(QueryErrors(l, o)), 1)}
        ELSE {Outcome(E, 200,
                      success_response([visits |-> VisitsData(page), total |-> Len(page)],
                                       <<"Success">>), 1) :
                 page \in get_all_visits(table, l.v, o.v)}
             \cup {Failed(E, error_response(<<"Failed to fetch visits">>, 500, None, None), 1)}

(* GET /: the page; total is the length of the page *)
get_all_visits_endpoint(table, limit, offset) ==
    LET E == "get_all_visits"
        l == QueryInt(limit, AllLimitDefault, 1, Some(AllLimitMax))
        o == QueryInt(offset, 0, 0, None)
    IN  IF ~(l.ok /\ o.ok)
        THEN {Failed(E, validation_error_response(QueryErrors(l, o)), 0)}
        ELSE {Outcome(E, 200,
                      success_response([visits |-> VisitsData(page), total |-> Len(page)],
                                       <<"Success">>), 1) :
                 page \in get_all_visits(table, l.v, o.v)}
             \cup {Failed(E, error_response(<<"Failed to fetch visits">>, 500, None, None), 1)}

----------------------------------------------------------------------------
(* main.py *)

APP_VERSION == "1.0.0"
APP_TITLE == "Chrome History Sidepanel API"
StartTime == 1      \* start_time: the clock when the module was loaded

(* GET /: API information *)
root ==
    {Outcome("root", 200,
             success_response([message |-> APP_TITLE, version |-> APP_VERSION,
                               docs |-> "/docs", health |-> "/health"],
                              <<"Success">>), 0)}

(* health_data of a health check at time t *)
health_data(status, db_status, t) ==
    [status |-> status, version |-> APP_VERSION,
     uptime_seconds |-> t - StartTime, database |-> db_status]

(* Mutant: the failure of SELECT 1 is caught and the service reported healthy. *)
health_check_always_healthy(t) ==
    {Outcome("health_check", 200,
             success_response(health_data("healthy", "connected", t),
                              <<"Service healthy">>), 1) @@ [db_ok |-> ok] :
        ok \in BOOLEAN}

(* GET /health: SELECT 1 succeeds or raises; db_ok tells which *)
health_check(t) ==
    LET E == "health_check"
    IN  {Outcome(E, 200,
                 success_response(health_data("healthy", "connected", t),
                                  <<"Service healthy">>), 1) @@ [db_ok |-> TRUE],
         Failed(E, error_response(<<"Service unhealthy">>, 503, None,
                                  Some(health_data("unhealthy", "disconnected", t))), 1)
            @@ [db_ok |-> FALSE]}

----------------------------------------------------------------------------
(* A GET request as the application serves it: the server percent-decodes  *)
(* the raw path, the router picks the route, the endpoint runs             *)
ServeGet(table, raw_path, limit, offset) ==
    LET path == RedirectSlashes("GET", unquote(raw_path))
        i == Dispatch("GET", path)
    IN  IF i = 0 THEN {Outcome("none", 404, [detail |-> "Not Found"], 0)}
        ELSE LET route == Routes[i] IN
             CASE route.endpoint = "get_visits_for_url" ->
                    get_visits_for_url(table, PathParam(route.path, path), limit, offset)
               [] route.endpoint = "get_latest_visit_for_url" ->
                    get_latest_visit_for_url(table, PathParam(route.path, path))
               [] route.endpoint = "get_all_visits" ->
                    get_all_visits_endpoint(table, limit, offset)

(* Mutant: the row is flushed and stays in the table when the commit fails. *)
create_visit_partial(table, visit, id, t_call, t_flush) ==
    LET E == "create_visit"
        db_visit == create_page_visit(visit, id, t_call, t_flush)
        written(o, rows) == o @@ [written |-> rows]
    IN  IF id \in {r.id : r \in table}
        THEN {written(Failed(E, error_response(<<"Failed to create visit">>, 500,
                                               Some(<<IntegrityError>>), None), 1), {})}
        ELSE {written(Outcome(E, 201,
                              success_response(PageVisitResponse(db_visit),
                                               <<"Visit created successfully">>), 2),
                      {db_visit})}
             \cup {written(Failed(E, error_response(<<"Failed to create visit">>, 500,
                                                    Some(<<e>>), None), n), {db_visit}) :
                      e \in StoreErrors, n \in 1..2}

(* POST /: the outcomes of create_visit for a validated body.  The insert  *)
(* fails when the store fails or when the id is taken (primary key); the   *)
(* refresh after the commit may fail too.  An outcome names the rows       *)
(* written and the clock at the end of the call.                           *)
create_visit(table, visit, id, t_call, t_flush) ==
    LET E == "create_visit"
        db_visit == create_page_visit(visit, id, t_call, t_flush)
        written(o, rows) == o @@ [written |-> rows]
    IN  IF id \in {r.id : r \in table}
        THEN {written(Failed(E, error_response(<<"Failed to create visit">>, 500,
                                               Some(<<IntegrityError>>), None), 1), {})}
        ELSE {written(Outcome(E, 201,
                              success_response(PageVisitResponse(db_visit),
                                               <<"Visit created successfully">>), 2),
                      {db_visit})}
             \cup {written(Failed(E, error_response(<<"Failed to create visit">>, 500,
                                                    Some(<<e>>), None), 1), {}) :
                      e \in StoreErrors}
             \cup {written(Failed(E, error_response(<<"Failed to create visit">>, 500,
                                                    Some(<<e>>), None), 2), {db_visit}) :
                      e \in StoreErrors}

----------------------------------------------------------------------------
(* Requests the clients send *)

COUNT_FIELDS == {"link_count", "word_count", "image_count"}

BaseBody ==
    [url |-> JStr(U_x), datetime_visited |-> JMissing,
     link_count |-> JInt(1), word_count |-> JInt(2), image_count |-> JInt(3)]

ZeroBody ==
    [url |-> JStr(U_x), datetime_visited |-> JMissing,
     link_count |-> JInt(0), word_count |-> JInt(0), image_count |-> JInt(0)]

(* Values of a count field next to the valid value n of BaseBody: the     *)
(* same number as a float and as a string, and what is no integer >= 0     *)
CountInputs(n) ==
    {JMissing, JNull, JInt(-1), JFloat(n, 0), JFloat(n, 5), JFloat(-1, 0),
     JStr(StringOfInt(n)), JStr("-1"), JStr("ten")}

CreateBodies ==
    {BaseBody}
    \cup {[BaseBody EXCEPT !.url = u] :
             u \in {JStr(s) : s \in UrlStrings \cup {U_empty}}
                   \cup {JInt(12345), JNull, JMissing}}
    \cup {[BaseBody EXCEPT !.datetime_visited = d] :
             d \in {JStr(s) : s \in IsoStrings} \cup {JNull, JStr("yesterday")}}
    \cup UNION {{[BaseBody EXCEPT ![f] = c] : c \in CountInputs(BaseBody[f].n)} :
                   f \in COUNT_FIELDS}
    \cup {ZeroBody}

(* The bodies of the clients that also list: their urls are well-formed *)
ListedBodies ==
    {b \in CreateBodies : b.url.t = "str" => IsHttpUrl(b.url.s)}

(* Query strings <<limit, offset>>: the valid pairs, the defaults, and the  *)
(* values next to and beyond each bound                                    *)
Queries(max, over) ==
    {<<JStr(l), JStr(o)>> : l \in {"1", "2"}, o \in {"0", "1", "2"}}
    \cup {<<JMissing, JMissing>>}
    \cup {<<JStr(l), JMissing>> : l \in {"0", max, over, "ten"}}
    \cup {<<JMissing, JStr(o)>> : o \in {"-1", "ten"}}
    \cup {<<JStr("0"), JStr("-1")>>}

UrlQueries == Queries("100", "101")
AllQueries == Queries("500", "501")

UrlPath(url) == <<PREFIX, "/url/">> \o quote(url)
LatestPath(url) == UrlPath(url) \o <<"/latest">>
AllPath == <<PREFIX>>
RootPath == <<"/">>
HealthPath == <<"/health">>

NoPager == [active |-> FALSE]

----------------------------------------------------------------------------
(* The state machine.  A client sends a request, the service handles it in  *)
(* one step, the client receives the response.  A client that got a page   *)
(* of a per-URL listing may ask for the next page at once.                 *)

NoRequest == [kind |-> "none"]
NoResponse == [status |-> 0, body |-> [detail |-> "no request"]]
NoMeta == [endpoint |-> "none", queries |-> 0, written |-> {}, start |-> 0, end |-> 0]

Init ==
    /\ visits = {}
    /\ now = 1
    /\ req = NoRequest
    /\ resp = NoResponse
    /\ meta = NoMeta
    /\ pager = NoPager

Idle == req = NoRequest

(* POST /api/visits with a JSON body *)
PostVisit(body) ==
    LET path == RedirectSlashes("POST", <<PREFIX>>)
        route == Routes[Dispatch("POST", path)]
        v == PageVisitCreate(body)
    IN  /\ Idle
        /\ Cardinality(visits) < MaxVisits
        /\ req' = [kind |-> "create", body |-> body]
        /\ pager' = NoPager
        /\ IF ~v.ok
           THEN /\ resp' = validation_error_response(v.errors)
                /\ meta' = [endpoint |-> route.endpoint, queries |-> 0, written |-> {},
                            start |-> now, end |-> now]
                /\ UNCHANGED <<visits, now>>
           ELSE \E id \in Uuid4(visits), d1 \in 0..1, d2 \in 0..1 :
                  /\ d1 + d2 <= 1
                  /\ now + d1 + d2 <= MaxClock
                  /\ \E o \in create_visit(visits, v.visit, id, now + d1, now + d1 + d2) :
                       /\ visits' = Insert(visits, o.written)
                       /\ now' = now + d1 + d2
                       /\ resp' = [status |-> o.status, body |-> o.body]
                       /\ meta' = [endpoint |-> o.endpoint, queries |-> o.queries,
                                   written |-> o.written,
                                   start |-> now, end |-> now + d1 + d2]

(* The request asks for the page that follows the pages fetched so far *)
IsNextPage(url, limit, offset) ==
    /\ pager.active
    /\ req.kind = "list" /\ req.url = url /\ req.limit = limit
    /\ offset.t = "str" /\ offset.s \in DigitStrings
    /\ IntOfString(offset.s) = pager.next

(* The pages fetched back to back, this one included *)
NextPager(url, limit, offset, o) ==
    LET l == QueryInt(limit, UrlLimitDefault, 1, Some(UrlLimitMax))
        f == QueryInt(offset, 0, 0, None)
        ids == [i \in DOMAIN o.body.data.visits |-> o.body.data.visits[i].id]
    IN  IF ~(o.status = 200 /\ o.endpoint = "get_visits_for_url") THEN NoPager
        ELSE IF IsNextPage(url, limit, offset)
             THEN [pager EXCEPT !.next = @ + l.v, !.ids = @ \o ids,
                                !.totals = @ \cup {o.body.data.total}]
        ELSE IF f.v = 0
             THEN [active |-> TRUE, limit |-> l.v, next |-> l.v,
                   ids |-> ids, totals |-> {o.body.data.total}]
        ELSE NoPager

(* GET /api/visits/url/{url}?limit=..&offset=.. *)
GetUrlVisits(url, limit, offset) ==
    /\ Idle \/ IsNextPage(url, limit, offset)
    /\ \E o \in ServeGet(visits, UrlPath(url), limit, offset) :
        /\ req' = [kind |-> "list", url |-> url, limit |-> limit, offset |-> offset]
        /\ resp' = [status |-> o.status, body |-> o.body]
        /\ meta' = [endpoint |-> o.endpoint, queries |-> o.queries, written |-> {},
                    start |-> now, end |-> now]
        /\ pager' = NextPager(url, limit, offset, o)
        /\ UNCHANGED <<visits, now>>

(* GET /api/visits/url/{url}/latest *)
GetUrlLatest(url) ==
    /\ Idle
    /\ \E o \in ServeGet(visits, LatestPath(url), JMissing, JMissing) :
        /\ req' = [kind |-> "latest", url |-> url]
        /\ resp' = [status |-> o.status, body |-> o.body]
        /\ meta' = [endpoint |-> o.endpoint, queries |-> o.queries, written |-> {},
                    start |-> now, end |-> now]
        /\ pager' = NoPager
        /\ UNCHANGED <<visits, now>>

(* GET /api/visits?limit=..&offset=.. *)
GetAllVisits(limit, offset) ==
    /\ Idle
    /\ \E o \in ServeGet(visits, AllPath, limit, offset) :
        /\ req' = [kind |-> "all", limit |-> limit, offset |-> offset]
        /\ resp' = [status |-> o.status, body |-> o.body]
        /\ meta' = [endpoint |-> o.endpoint, queries |-> o.queries, written |-> {},
                    start |-> now, end |-> now]
        /\ pager' = NoPager
        /\ UNCHANGED <<visits, now>>

(* GET / *)
GetRoot ==
    /\ Idle
    /\ Routes[Dispatch("GET", RedirectSlashes("GET", RootPath))].endpoint = "root"
    /\ \E o \in root :
        /\ req' = [kind |-> "root"]
        /\ resp' = [status |-> o.status, body |-> o.body]
        /\ meta' = [endpoint |-> o.endpoint, queries |-> o.queries, written |-> {},
                    start |-> now, end |-> now]
        /\ pager' = NoPager
        /\ UNCHANGED <<visits, now>>

(* GET /health *)
GetHealth ==
    /\ Idle
    /\ Routes[Dispatch("GET", RedirectSlashes("GET", HealthPath))].endpoint = "health_check"
    /\ \E o \in health_check(now) :
        /\ req' = [kind |-> "health"]
        /\ resp' = [status |-> o.status, body |-> o.body]
        /\ meta' = [endpoint |-> o.endpoint, queries |-> o.queries, written |-> {},
                    start |-> now, end |-> now, db_ok |-> o.db_ok]
        /\ pager' = NoPager
        /\ UNCHANGED <<visits, now>>

(* The client has read the response *)
Receive ==
    /\ ~Idle
    /\ req' = NoRequest
    /\ resp' = NoResponse
    /\ meta' = NoMeta
    /\ pager' = NoPager
    /\ UNCHANGED <<visits, now>>

Next ==
    \/ \E body \in ListedBodies : PostVisit(body)
    \/ \E url \in ReadUrls, q \in UrlQueries : GetUrlVisits(url, q[1], q[2])
    \/ \E url \in ReadUrls : GetUrlLatest(url)
    \/ \E q \in AllQueries : GetAllVisits(q[1], q[2])
    \/ GetRoot
    \/ GetHealth
    \/ Receive

Spec == Init /\ [][Next]_vars

----------------------------------------------------------------------------
(* Creates alone, with every body: any string as url *)

NextCreate ==
    \/ \E body \in CreateBodies : PostVisit(body)
    \/ Receive

SpecCreate == Init /\ [][NextCreate]_vars

----------------------------------------------------------------------------
(* Urls that hold percent sequences, stored and then asked for in a path *)

PercentUrls == {U_pct, U_sp}

PathQueries == {<<JMissing, JMissing>>, <<JStr("1"), JStr("0")>>, <<JStr("1"), JStr("1")>>}

NextPath ==
    \/ \E url \in PercentUrls : PostVisit([BaseBody EXCEPT !.url = JStr(url)])
    \/ \E url \in PercentUrls, q \in PathQueries : GetUrlVisits(url, q[1], q[2])
    \/ Receive

SpecPath == Init /\ [][NextPath]_vars

----------------------------------------------------------------------------
(* Visits that share one datetime_visited, listed twice in a row: a client *)
(* sends the listing request it sent last once more, with no other request *)
(* in between.                                                             *)

TiedBodies ==
    {BaseBody} \cup {[BaseBody EXCEPT !.datetime_visited = JStr(s)] : s \in IsoStrings}

RepeatQueries == {<<JMissing, JMissing>>, <<JStr("1"), JStr("0")>>, <<JStr("2"), JStr("1")>>}

(* GET /api/visits/url/{url}?limit=..&offset=.. once more *)
RepeatUrlVisits ==
    /\ req.kind = "list"
    /\ \E o \in ServeGet(visits, UrlPath(req.url), req.limit, req.offset) :
        /\ resp' = [status |-> o.status, body |-> o.body]
        /\ meta' = [endpoint |-> o.endpoint, queries |-> o.queries, written |-> {},
                    start |-> now, end |-> now]
        /\ pager' = NoPager
        /\ UNCHANGED <<visits, now, req>>

(* GET /api/visits?limit=..&offset=.. once more *)
RepeatAllVisits ==
    /\ req.kind = "all"
    /\ \E o \in ServeGet(visits, AllPath, req.limit, req.offset) :
        /\ resp' = [status |-> o.status, body |-> o.body]
        /\ meta' = [endpoint |-> o.endpoint, queries |-> o.queries, written |-> {},
                    start |-> now, end |-> now]
        /\ pager' = NoPager
        /\ UNCHANGED <<visits, now, req>>

NextRepeat ==
    \/ \E body \in TiedBodies : PostVisit(body)
    \/ \E q \in RepeatQueries : GetUrlVisits(U_x, q[1], q[2])
    \/ \E q \in RepeatQueries : GetAllVisits(q[1], q[2])
    \/ RepeatUrlVisits
    \/ RepeatAllVisits
    \/ Receive

SpecRepeat == Init /\ [][NextRepeat]_vars

----------------------------------------------------------------------------
(* The read functions of crud.py called on their own, one after the other  *)
(* on the same table: get_latest_visit_by_url(db, url) and then            *)
(* get_visits_by_url(db, url, limit=1, offset=0).  req is the call, resp   *)
(* holds what the calls returned.                                          *)

CrudBodies == TiedBodies \cup {[BaseBody EXCEPT !.url = JStr(U_xs)]}

CallLatest(url) ==
    /\ Idle
    /\ \E r \in get_latest_visit_by_url(visits, url) :
        /\ req' = [kind |-> "get_latest_visit_by_url", url |-> url]
        /\ resp' = [latest |-> r]
    /\ UNCHANGED <<visits, now, meta, pager>>

CallListOne ==
    /\ req.kind = "get_latest_visit_by_url"
    /\ DOMAIN resp = {"latest"}
    /\ \E page \in get_visits_by_url(visits, req.url, 1, 0) :
        resp' = [latest |-> resp.latest, page |-> page]
    /\ UNCHANGED <<visits, now, req, meta, pager>>

NextCrud ==
    \/ \E body \in CrudBodies : PostVisit(body)
    \/ \E url \in ReadUrls : CallLatest(url)
    \/ CallListOne
    \/ Receive

SpecCrud == Init /\ [][NextCrud]_vars

----------------------------------------------------------------------------
(* One per-URL listing handled statement by statement, while the creates   *)
(* of other requests commit before, between and after its store reads.     *)
(* meta holds the position of the handler and what it has read so far.     *)

(* Mutant: the handler counts first and reads the page second. *)
get_visits_for_url_reads_count_first == <<"get_visit_count_by_url", "get_visits_by_url">>

(* The store reads of get_visits_for_url in program order *)
get_visits_for_url_reads == <<"get_visits_by_url", "get_visit_count_by_url">>

(* The committed rows a read of the request's session may see: the table   *)
(* as it is now (READ COMMITTED), or as it was at the first read of the    *)
(* session's transaction (snapshot isolation).  A row is committed whole.  *)
SessionView(table, snapshot) ==
    IF snapshot = None THEN {table} ELSE {table, snapshot[1]}

InterleaveBodies == {BaseBody, [BaseBody EXCEPT !.url = JStr(U_xs)]}

InterleaveQueries ==
    {<<JMissing, JMissing>>, <<JStr("1"), JStr("0")>>, <<JStr("1"), JStr("1")>>}

(* The create of another request commits its row *)
ConcurrentCreate(body) ==
    LET v == PageVisitCreate(body) IN
    /\ v.ok
    /\ Cardinality(visits) < MaxVisits
    /\ \E id \in Uuid4(visits) \ {r.id : r \in visits}, d \in 0..1 :
        /\ now + d <= MaxClock
        /\ visits' = Insert(visits, {create_page_visit(v.visit, id, now + d, now + d)})
        /\ now' = now + d
    /\ UNCHANGED <<req, resp, meta, pager>>

(* GET /api/visits/url/{url}?limit=..&offset=.. enters the handler: the    *)
(* path is routed and limit and offset are validated                       *)
BeginList(url, limit, offset) ==
    LET path == RedirectSlashes("GET", unquote(UrlPath(url)))
        route == Routes[Dispatch("GET", path)]
        l == QueryInt(limit, UrlLimitDefault, 1, Some(UrlLimitMax))
        o == QueryInt(offset, 0, 0, None)
    IN  /\ Idle
        /\ route.endpoint = "get_visits_for_url"
        /\ l.ok /\ o.ok
        /\ req' = [kind |-> "list", url |-> url, limit |-> limit, offset |-> offset]
        /\ meta' = [endpoint |-> route.endpoint, queries |-> 0, written |-> {},
                    start |-> now, end |-> now,
                    decoded_url |-> unquote(PathParam(route.path, path)),
                    limit |-> l.v, offset |-> o.v,
                    reads |-> <<>>, snapshot |-> None, page |-> <<>>, total |-> 0,
                    began |-> Cardinality(UrlFilter(visits, url)), ended |-> 0]
        /\ UNCHANGED <<visits, now, resp, pager>>

InHandler == req.kind = "list" /\ resp = NoResponse

(* The next store read of the handler *)
StoreRead ==
    /\ InHandler
    /\ Len(meta.reads) < Len(get_visits_for_url_reads)
    /\ LET read == get_visits_for_url_reads[Len(meta.reads) + 1]
           after == [meta EXCEPT !.reads = Append(@, read), !.queries = @ + 1,
                                 !.snapshot = IF @ = None THEN Some(visits) ELSE @]
       IN  \E view \in SessionView(visits, meta.snapshot) :
             IF read = "get_visits_by_url"
             THEN \E page \in get_visits_by_url(view, meta.decoded_url,
                                                meta.limit, meta.offset) :
                    meta' = [after EXCEPT !.page = page]
             ELSE meta' = [after EXCEPT
                             !.total = get_visit_count_by_url(view, meta.decoded_url)]
    /\ UNCHANGED <<visits, now, req, resp, pager>>

(* The next store read raises SQLAlchemyError *)
StoreReadFails ==
    LET r == error_response(<<"Failed to fetch visits">>, 500, None, None) IN
    /\ InHandler
    /\ Len(meta.reads) < Len(get_visits_for_url_reads)
    /\ resp' = [status |-> r.status, body |-> r.body]
    /\ meta' = [meta EXCEPT !.queries = @ + 1, !.end = now,
                            !.ended = Cardinality(UrlFilter(visits, req.url))]
    /\ UNCHANGED <<visits, now, req, pager>>

(* The handler returns what it has read *)
ReturnList ==
    /\ InHandler
    /\ Len(meta.reads) = Len(get_visits_for_url_reads)
    /\ resp' = [status |-> 200,
                body |-> success_response([visits |-> VisitsData(meta.page),
                                           total |-> meta.total], <<"Success">>)]
    /\ meta' = [meta EXCEPT !.end = now, !.ended = Cardinality(UrlFilter(visits, req.url))]
    /\ UNCHANGED <<visits, now, req, pager>>

ReceiveList == resp # NoResponse /\ Receive

NextInterleave ==
    \/ \E body \in InterleaveBodies : ConcurrentCreate(body)
    \/ \E q \in InterleaveQueries : BeginList(U_x, q[1], q[2])
    \/ StoreRead
    \/ StoreReadFails
    \/ ReturnList
    \/ ReceiveList

SpecInterleave == Init /\ [][NextInterleave]_vars

----------------------------------------------------------------------------
(* The helpers of response.py called on their own.  req is the call with   *)
(* its arguments (None for an argument left out), resp the value returned. *)

HealthSnapshot == [status |-> "unhealthy", database |-> "disconnected"]

ErrorCalls ==
    [kind : {"error_response"},
     message : {<<"Error occurred">>, <<"Not found">>, <<"Service unavailable">>},
     status_code : {None, Some(404), Some(422), Some(500), Some(503)},
     errors : {None, Some(<<>>), Some(<<"Field 'url' is required">>),
               Some(<<"Field 'url' is required", "Field 'link_count' must be >= 0">>)},
     data : {None, Some(<<>>), Some(HealthSnapshot)}]

SuccessCalls ==
    [kind : {"success_response"},
     data : {None, [test |-> "data"], [visits |-> <<>>, total |-> 0], HealthSnapshot},
     message : {None, Some(<<"Custom success message">>)}]

InitResponse ==
    /\ visits = {}
    /\ now = 1
    /\ req \in ErrorCalls \cup SuccessCalls
    /\ resp = NoResponse
    /\ meta = NoMeta
    /\ pager = NoPager

Returned == resp # NoResponse

CallErrorResponse ==
    /\ req.kind = "error_response" /\ ~Returned
    /\ resp' = error_response(req.message, Default(req.status_code, ErrorStatusDefault),
                              req.errors, req.data)
    /\ UNCHANGED <<visits, now, req, meta, pager>>

CallSuccessResponse ==
    /\ req.kind = "success_response" /\ ~Returned
    /\ resp' = [body |-> success_response(req.data, Default(req.message, <<"Success">>))]
    /\ UNCHANGED <<visits, now, req, meta, pager>>

NextResponse ==
    \/ CallErrorResponse
    \/ CallSuccessResponse

SpecResponse == InitResponse /\ [][NextResponse]_vars

----------------------------------------------------------------------------
(* Vocabulary of the properties *)

Matching(url) == {r \in visits : r.url = url}

Created == req.kind = "create" /\ resp.status = 201
Listed == req.kind = "list" /\ resp.status = 200
ListedAll == req.kind = "all" /\ resp.status = 200
StoreFailed == resp.status = 500

(* The integer a JSON number of a request body denotes *)
IntOfJson(j) == IF j.t = "str" THEN IntOfString(j.s) ELSE j.n

DistinctTimes(rows) ==
    \A r1, r2 \in rows : r1 # r2 => r1.datetime_visited # r2.datetime_visited

StrictlyDescending(v) ==
    \A i, j \in DOMAIN v : i < j => v[i].datetime_visited > v[j].datetime_visited

Range(f) == {f[i] : i \in DOMAIN f}

----------------------------------------------------------------------------
\* C1: the record a successful create returns has the url and the three counts
\* of the input, an id no other stored record has, created_at set to a server
\* time of the call, and datetime_visited equal to the supplied value, or, when
\* none was supplied, a server time between the start and the end of the call.
CreateRoundTrip ==
    Created =>
        LET d == resp.body.data
            b == req.body
        IN  /\ resp.body.success
            /\ d.url = b.url.s
            /\ d.link_count = IntOfJson(b.link_count)
            /\ d.word_count = IntOfJson(b.word_count)
            /\ d.image_count = IntOfJson(b.image_count)
            /\ d \in visits
            /\ \A r \in visits : r.id = d.id => r = d
            /\ "created_at" \in DOMAIN d
            /\ meta.start <= d.created_at /\ d.created_at <= meta.end
            /\ IF b.datetime_visited.t = "str"
               THEN d.datetime_visited = TimeOfIso(b.datetime_visited.s)
               ELSE meta.start <= d.datetime_visited /\ d.datetime_visited <= meta.end

\* C1 witness: a second record was created with a supplied timestamp that is
\* not the server time of the call.
CreateRoundTripWitness ==
    /\ Created
    /\ Cardinality(visits) = 2
    /\ req.body.datetime_visited.t = "str"
    /\ resp.body.data.datetime_visited < meta.start

\* C2: when the listed records (those of the url, or the whole table for the
\* listing of all) have pairwise distinct datetime_visited, the response has
\* them in strictly descending datetime_visited order.
ListingDescending ==
    /\ Listed /\ DistinctTimes(Matching(req.url))
          => StrictlyDescending(resp.body.data.visits)
    /\ ListedAll /\ DistinctTimes(visits)
          => StrictlyDescending(resp.body.data.visits)

\* C2 witness: a listing of two records in which the most recent visit was
\* created first and so is not in creation order reversed.
ListingDescendingWitness ==
    /\ Listed
    /\ Len(resp.body.data.visits) = 2
    /\ DistinctTimes(Matching(req.url))
    /\ resp.body.data.visits[1].id < resp.body.data.visits[2].id

\* C3 (as claimed): the pages fetched back to back at offsets 0, P, 2P, ...
\* never hold an id twice, and once the offsets have covered the N matching
\* records the pages hold every matching id.
PagesDisjointAndComplete ==
    pager.active =>
        /\ \A i, j \in DOMAIN pager.ids : i # j => pager.ids[i] # pager.ids[j]
        /\ pager.next >= Cardinality(Matching(req.url))
              => Range(pager.ids) = {r.id : r \in Matching(req.url)}

\* C4: every record a per-URL listing returns is a stored record whose url is
\* exactly the requested url, and the listing with the default window holds
\* all of them, whatever other urls are stored.
ListingFiltered ==
    Listed =>
        /\ \A i \in DOMAIN resp.body.data.visits : resp.body.data.visits[i].url = req.url
        /\ Range(resp.body.data.visits) \subseteq Matching(req.url)
        /\ req.limit = JMissing /\ req.offset = JMissing
              => Range(resp.body.data.visits) = Matching(req.url)

\* C4 witness: a listing returns a record while a record whose url differs
\* only by case and one whose url differs only by a trailing slash are stored.
ListingFilteredWitness ==
    /\ Listed
    /\ req.url = U_x
    /\ Len(resp.body.data.visits) = 1
    /\ \E r \in visits : r.url \in {U_X, U_xs}

\* C5 (as claimed): a latest request for a url with no stored visit is
\* answered, unless the store fails, with 404, success false and a message
\* that contains "No visits found".
LatestOfNoneIs404 ==
    req.kind = "latest" /\ Matching(req.url) = {} /\ ~StoreFailed =>
        /\ resp.status = 404
        /\ "success" \in DOMAIN resp.body /\ ~resp.body.success
        /\ resp.body.message[1] = "No visits found"

\* C6 (as claimed): a latest request for a url with stored visits is answered,
\* unless the store fails, with 200 and as data one Visit: a stored record of
\* the url with the greatest datetime_visited.
LatestIsMostRecent ==
    req.kind = "latest" /\ Matching(req.url) # {} /\ ~StoreFailed =>
        /\ resp.status = 200
        /\ "id" \in DOMAIN resp.body.data
        /\ resp.body.data \in Matching(req.url)
        /\ \A r \in Matching(req.url) :
              r.datetime_visited <= resp.body.data.datetime_visited

\* C7: total of a per-URL listing is the number of stored records of the url,
\* whatever the window, and is the same on every page fetched back to back.
TotalIsCountOfUrl ==
    Listed =>
        /\ resp.body.data.total = Cardinality(Matching(req.url))
        /\ pager.active => pager.totals = {Cardinality(Matching(req.url))}

\* C7 witness: the second page of a listing, shorter than the total.
TotalIsCountOfUrlWitness ==
    /\ Listed
    /\ pager.active /\ pager.next = 2 * pager.limit
    /\ Len(resp.body.data.visits) = 1
    /\ resp.body.data.total = 2

(* The other fields of a create body pass validation *)
UrlAndTimeValid(b) ==
    /\ b.url.t = "str"
    /\ b.datetime_visited.t \in {"missing", "null"}
       \/ (b.datetime_visited.t = "str" /\ b.datetime_visited.s \in IsoStrings)

IsNonNegativeInteger(j) == j.t = "int" /\ j.n >= 0

\* C8 (as claimed): a create whose counts are not all integers >= 0 (one is
\* negative, not an integer, or missing) is rejected with 422; one whose
\* counts are all integers >= 0 passes validation and, unless the store
\* fails, is answered 201.
CountsValidated ==
    req.kind = "create" /\ UrlAndTimeValid(req.body) /\ ~StoreFailed =>
        IF \E f \in COUNT_FIELDS : ~IsNonNegativeInteger(req.body[f])
        THEN resp.status = 422 /\ meta.written = {}
        ELSE resp.status = 201

(* What the query-string validation is to accept *)
LimitInRange(j, max) ==
    \/ j.t = "missing"
    \/ j.t = "str" /\ j.s \in DigitStrings /\ 1 <= IntOfString(j.s) /\ IntOfString(j.s) <= max
OffsetInRange(j) ==
    \/ j.t = "missing"
    \/ j.t = "str" /\ j.s \in DigitStrings /\ 0 <= IntOfString(j.s)

\* C9: the per-URL listing accepts limit exactly in 1..100 and the listing of
\* all exactly in 1..500, both accept offset exactly when it is >= 0; anything
\* else is answered 422 with no store statement issued; a request without
\* limit and offset is answered as one with limit 50, respectively 100, and
\* offset 0.
WindowBounds ==
    /\ req.kind = "list" =>
          /\ (resp.status = 422) = ~(LimitInRange(req.limit, 100) /\ OffsetInRange(req.offset))
          /\ resp.status = 422 => meta.queries = 0
          /\ req.limit = JMissing /\ req.offset = JMissing =>
                \E o \in ServeGet(visits, UrlPath(req.url), JStr("50"), JStr("0")) :
                    resp = [status |-> o.status, body |-> o.body]
    /\ req.kind = "all" =>
          /\ (resp.status = 422) = ~(LimitInRange(req.limit, 500) /\ OffsetInRange(req.offset))
          /\ resp.status = 422 => meta.queries = 0
          /\ req.limit = JMissing /\ req.offset = JMissing =>
                \E o \in ServeGet(visits, AllPath, JStr("100"), JStr("0")) :
                    resp = [status |-> o.status, body |-> o.body]

\* C9 witness: the greatest limit of the per-URL listing is accepted and the
\* listing returns the stored records.
WindowBoundsWitness ==
    /\ Listed
    /\ req.limit = JStr("100")
    /\ Len(resp.body.data.visits) = 2

\* C10 (as claimed): a create whose url is a string that cannot be parsed as a
\* URL, with the other fields valid, is answered 422 and writes no record
\* (whether the store would have failed or not).
UnparseableUrlRejected ==
    /\ req.kind = "create" /\ ~StoreFailed
    /\ req.body.url.t = "str" /\ ~IsHttpUrl(req.body.url.s)
    /\ \A f \in COUNT_FIELDS : IsNonNegativeInteger(req.body[f])
    => resp.status = 422 /\ meta.written = {}

\* C11 (as claimed): a create whose url is the empty string, or is not a
\* string, is answered 422 and writes no record, and no stored record has an
\* empty url.
EmptyUrlRejected ==
    /\ /\ req.kind = "create" /\ ~StoreFailed
       /\ req.body.url \in {JStr(U_empty), JInt(12345), JNull}
       => resp.status = 422 /\ meta.written = {}
    /\ \A r \in visits : r.url # U_empty

\* C12: a request answered 422 (a create body or a limit/offset that fails
\* validation) leaves the table as it was, and no store statement, read or
\* write, was issued for it.
ValidationNeverReachesStore ==
    [][resp'.status = 422 =>
          /\ visits' = visits
          /\ meta'.queries = 0
          /\ meta'.written = {}]_vars

\* C12 witness: a create with an invalid body was rejected while the table
\* holds a record.
ValidationNeverReachesStoreWitness ==
    /\ req.kind = "create"
    /\ resp.status = 422
    /\ visits # {}

\* C13 (as claimed): every response of every endpoint has a boolean success
\* and a message, and success is true exactly when the status is 2xx.
UniformEnvelope ==
    ~Idle =>
        /\ {"success", "message"} \subseteq DOMAIN resp.body
        /\ resp.body.success \in BOOLEAN
        /\ resp.body.success <=> resp.status \in 200..299

(* The texts of the errors the store may raise *)
StoreErrorTexts == StoreErrors \cup {IntegrityError}

\* C14 (as claimed): a response to a store failure in one of the four visits
\* endpoints has status 500, success false and a message, and neither the
\* message nor errors nor data holds the text of the store error.
StoreFailureHidden ==
    StoreFailed =>
        /\ ~resp.body.success
        /\ Range(resp.body.message) \cap StoreErrorTexts = {}
        /\ "errors" \in DOMAIN resp.body
              => Range(resp.body.errors) \cap StoreErrorTexts = {}
        /\ "data" \notin DOMAIN resp.body

\* C15: GET /health is answered 200, success true, status "healthy" and
\* database "connected" when the connection check succeeds, and 503, success
\* false, status "unhealthy" and database "disconnected" when it fails.
HealthReflectsStore ==
    req.kind = "health" =>
        /\ "data" \in DOMAIN resp.body
        /\ IF meta.db_ok
           THEN /\ resp.status = 200 /\ resp.body.success
                /\ resp.body.data.status = "healthy"
                /\ resp.body.data.database = "connected"
           ELSE /\ resp.status = 503 /\ ~resp.body.success
                /\ resp.body.data.status = "unhealthy"
                /\ resp.body.data.database = "disconnected"

\* C15 witness: the connection check failed while the table holds records.
HealthReflectsStoreWitness ==
    /\ req.kind = "health"
    /\ ~meta.db_ok
    /\ resp.status = 503
    /\ visits # {}

\* C16: no step removes or changes a stored record, and a step that handles
\* a read (list, latest, list all, health, root) leaves the table as it was.
RecordsImmutable ==
    [][/\ visits \subseteq visits'
       /\ req'.kind \in {"list", "latest", "all", "health", "root"} => visits' = visits]_vars

\* C16 witness: a read of a table of two records created at different times.
RecordsImmutableWitness ==
    /\ req.kind = "all" /\ resp.status = 200
    /\ Cardinality(visits) = 2
    /\ \E r1, r2 \in visits : r1.created_at < r2.created_at

\* C17: error_response returns the given status code, 400 when none is given,
\* and a body with success false and the given message; the body has the key
\* errors exactly when a non-empty list was passed, with that list, the key
\* data exactly when a non-empty value was passed, with that value, and no
\* other key.
ErrorResponseShape ==
    req.kind = "error_response" /\ Returned =>
        /\ resp.status = (IF req.status_code = None THEN 400 ELSE req.status_code[1])
        /\ resp.body.success = FALSE
        /\ resp.body.message = req.message
        /\ DOMAIN resp.body \subseteq {"success", "message", "errors", "data"}
        /\ "errors" \in DOMAIN resp.body <=> (req.errors # None /\ Len(req.errors[1]) > 0)
        /\ "errors" \in DOMAIN resp.body => resp.body.errors = req.errors[1]
        /\ "data" \in DOMAIN resp.body <=> (req.data # None /\ DOMAIN req.data[1] # {})
        /\ "data" \in DOMAIN resp.body => resp.body.data = req.data[1]

\* C17 witness: a call without status code, with an empty errors list and an
\* empty data value, returned 400 and a body with neither key.
ErrorResponseShapeWitness ==
    /\ req.kind = "error_response" /\ Returned
    /\ req.status_code = None /\ req.errors = Some(<<>>) /\ req.data = Some(<<>>)
    /\ resp.status = 400
    /\ DOMAIN resp.body = {"success", "message"}

\* C18: success_response returns success true, the given message, "Success"
\* when none is given, and the key data holding the payload passed in, also
\* when the payload is None.
SuccessResponseShape ==
    req.kind = "success_response" /\ Returned =>
        /\ DOMAIN resp.body = {"success", "message", "data"}
        /\ resp.body.success = TRUE
        /\ resp.body.message = (IF req.message = None THEN <<"Success">> ELSE req.message[1])
        /\ resp.body.data = req.data

\* C18 witness: a call with payload None and no message returned the key
\* data and the message "Success".
SuccessResponseShapeWitness ==
    /\ req.kind = "success_response" /\ Returned
    /\ req.data = None /\ req.message = None
    /\ "data" \in DOMAIN resp.body
    /\ resp.body.message = <<"Success">>

Max(a, b) == IF a > b THEN a ELSE b

(* The limit or offset a request asks for *)
AskedInt(j, default) == IF j.t = "missing" THEN default ELSE IntOfString(j.s)

(* v holds the records at positions offset .. offset+limit-1 of an ordering *)
(* of rows by datetime_visited descending: the record at index i has at     *)
(* most offset+i-1 rows more recent than it and at least offset+i rows at   *)
(* least as recent                                                          *)
IsWindow(v, rows, limit, offset) ==
    /\ Len(v) = Min(limit, Max(0, Cardinality(rows) - offset))
    /\ Range(v) \subseteq rows
    /\ \A i, j \in DOMAIN v : i # j => v[i] # v[j]
    /\ \A i \in DOMAIN v :
          /\ Cardinality({r \in rows : r.datetime_visited > v[i].datetime_visited})
                <= offset + i - 1
          /\ Cardinality({r \in rows : r.datetime_visited >= v[i].datetime_visited})
                >= offset + i

\* C19: a listing with valid limit and offset is answered, unless the store
\* fails, with 200 and success true, and with N records to list it returns
\* min(limit, max(0, N - offset)) of them: those at positions offset ..
\* offset+limit-1 of the descending order; none when N = 0 or offset >= N.
PageSize ==
    /\ /\ req.kind = "list" /\ ~StoreFailed
       /\ LimitInRange(req.limit, 100) /\ OffsetInRange(req.offset)
       => /\ resp.status = 200 /\ resp.body.success
          /\ IsWindow(resp.body.data.visits, Matching(req.url),
                      AskedInt(req.limit, 50), AskedInt(req.offset, 0))
    /\ /\ req.kind = "all" /\ ~StoreFailed
       /\ LimitInRange(req.limit, 500) /\ OffsetInRange(req.offset)
       => /\ resp.status = 200 /\ resp.body.success
          /\ IsWindow(resp.body.data.visits, visits,
                      AskedInt(req.limit, 100), AskedInt(req.offset, 0))

\* C19 witness: a listing at an offset equal to the number of records of the
\* url returns an empty sequence with status 200.
PageSizeWitness ==
    /\ Listed
    /\ Cardinality(Matching(req.url)) = 2
    /\ req.offset = JStr("2")
    /\ resp.body.data.visits = <<>>

\* C20 (as claimed): a listing asked for with the percent-encoding of a url u
\* in the path returns stored records of u only, with the default window all
\* of them, and counts them in total, also when u holds a '%' sequence.
PathRoundTrip ==
    Listed =>
        /\ Range(resp.body.data.visits) \subseteq Matching(req.url)
        /\ req.limit = JMissing => Range(resp.body.data.visits) = Matching(req.url)
        /\ resp.body.data.total = Cardinality(Matching(req.url))

\* C21: a create whose store write fails (the insert or its commit raises,
\* for a store failure or a taken id) is answered 500 and leaves the table as
\* it was before the request, so no later read returns the record.
WriteFailurePersistsNothing ==
    [][req'.kind = "create" /\ resp'.status = 500 /\ meta'.queries = 1 =>
          /\ visits' = visits
          /\ meta'.written = {}]_vars

\* C21 witness: the write of a create failed while the table holds a record
\* of an earlier create, and the table holds that record only.
WriteFailurePersistsNothingWitness ==
    /\ req.kind = "create" /\ resp.status = 500 /\ meta.queries = 1
    /\ Cardinality(visits) = 1
    /\ \A r \in visits : r.created_at < meta.end

\* C22 (as claimed): a listing request (per url or of all) sent twice in a
\* row, with no create in between, is answered twice with the same records
\* in the same order, also when stored records share one datetime_visited.
RepeatedListingSameOrder ==
    [][/\ req.kind \in {"list", "all"} /\ req' = req
       /\ resp.status = 200 /\ resp'.status = 200
       => resp'.body.data.visits = resp.body.data.visits]_vars

\* C23 (as claimed): get_latest_visit_by_url(url) and then
\* get_visits_by_url(url, limit=1, offset=0) on the same table: the first
\* returns None exactly when the second returns the empty list, and otherwise
\* returns the record that is the single element of the list.
LatestIsListOfOne ==
    req.kind = "get_latest_visit_by_url" /\ "page" \in DOMAIN resp =>
        /\ resp.latest = None <=> resp.page = <<>>
        /\ resp.latest # None => resp.page = <<resp.latest[1]>>

\* C24 (as claimed): the listing of all visits reports as total the number of
\* all stored records, whatever limit and offset are.
AllTotalCountsAll ==
    ListedAll => resp.body.data.total = Cardinality(visits)

\* C25: every stored record has link_count, word_count and image_count of at
\* least 0 and has a datetime_visited and a created_at, whatever requests
\* were accepted and rejected before.
StoredRecordInvariant ==
    \A r \in visits :
        /\ r.link_count >= 0 /\ r.word_count >= 0 /\ r.image_count >= 0
        /\ {"datetime_visited", "created_at"} \subseteq DOMAIN r
        /\ r.datetime_visited \in Int /\ r.created_at \in Int

\* C25 witness: a create with a negative count was rejected while the table
\* holds a record whose counts are 0 and whose datetime_visited was taken
\* from the clock.
StoredRecordInvariantWitness ==
    /\ req.kind = "create" /\ resp.status = 422
    /\ \E f \in COUNT_FIELDS : req.body[f] \in {JInt(-1), JStr("-1"), JFloat(-1, 0)}
    /\ \E r \in visits : r.link_count = 0 /\ r.datetime_visited = r.created_at

\* C26: a per-URL listing reads the page and then the count as two store
\* reads, and with creates committed before, between and after the reads its
\* response holds no more records than its total, and its total lies between
\* the number of matching records stored when the request began and the
\* number stored when it ended.
InterleavedListConsistent ==
    req.kind = "list" /\ resp.status = 200 =>
        /\ meta.reads = <<"get_visits_by_url", "get_visit_count_by_url">>
        /\ Len(resp.body.data.visits) <= resp.body.data.total
        /\ meta.began <= resp.body.data.total
        /\ resp.body.data.total <= meta.ended

\* C26 witness: a create of the url committed between the two reads of a
\* listing with the default window, and another after them: the total is
\* above the length of the page and below the number stored at the end.
InterleavedListConsistentWitness ==
    /\ req.kind = "list" /\ resp.status = 200
    /\ req.limit = JMissing /\ req.offset = JMissing
    /\ Len(resp.body.data.visits) < resp.body.data.total
    /\ meta.began < meta.ended

====
